---- MODULE Spec2Model ----
(***************************************************************************)
(* A model of the two artefacts of the repository:                         *)
(*                                                                         *)
(*   notebooks/load_pretrained_timm.ipynb   an in-order run of the code    *)
(*       cells, one action per statement; a statement that raises halts    *)
(*       the run (no cell contains try/except).                            *)
(*   .github/workflows/publish_test.yml     runs of the publish job, one   *)
(*       action per step or shell command; the cache of actions/cache      *)
(*       persists from one run to the next.                                *)
(*                                                                         *)
(* The libraries (timm, tfimm, torch, tensorflow, poetry) are opaque: a    *)
(* call into them either raises or returns a value chosen from a small     *)
(* set.  What the repository's own text fixes (the order of the            *)
(* statements, the arguments of each call, the axis permutation, the save  *)
(* path, the cache key, the step condition) is modelled as written.        *)
(***************************************************************************)
EXTENDS Naturals, Sequences, FiniteSets, TLC

VARIABLES
    \* ---- notebook run ----
    pc,               \* index into Program of the next statement to run
    failedAt,         \* the statement that raised, or "none"
    executed,         \* the statements that completed, in order
    environ,          \* os.environ (only the names the notebook touches)
    modules,          \* names bound by the import statements
    TIMM_MODEL_NAME,  \* notebook variables: None until assigned
    N_CLASSES,
    IMG_DIM,
    timm_model,
    keras_model,
    sample_input,
    torch_output,
    keras_output,
    timm_arg,         \* the tensor handed to timm_model(...)
    keras_arg,        \* the array handed to keras_model.predict(...)
    stdout,           \* what print wrote
    disk,             \* what was saved: a set of [path, save_format, model]
    \* ---- publish workflow ----
    wpc,              \* the step or command the current run is at
    event,            \* the event that was delivered last
    lock,             \* the poetry.lock of the commit the run checked out
    cacheStore,       \* actions/cache entries kept between runs
    cache_hit,        \* steps.cache.outputs.cache-hit
    restored,         \* the cache entry the cache step restored, or None
    venv,             \* what ~/.virtualenvs holds: None or its origin
    wlog,             \* the steps and commands this run has completed
    poetryConfig,     \* settings made by poetry config in this run
    built,            \* poetry build has produced the package in this run
    uploads,          \* every upload made, over all runs
    runs              \* number of events delivered so far

nbVars == <<pc, failedAt, executed, environ, modules, TIMM_MODEL_NAME, N_CLASSES,
            IMG_DIM, timm_model, keras_model, sample_input, torch_output,
            keras_output, timm_arg, keras_arg, stdout, disk>>

wfVars == <<wpc, event, lock, cacheStore, cache_hit, restored, venv, wlog,
            poetryConfig, built, uploads, runs>>

vars == <<nbVars, wfVars>>

----------------------------------------------------------------------------
(* Bounds of the model *)

\* The side of the square image: stands for IMG_DIM (224 in the notebook).
ImgDim == 2

\* Seeds of torch's random generator: 0..MaxSeed.
MaxSeed == 2

\* Abstract output values a model may return: 0..MaxOut.
MaxOut == 2

\* Events delivered to the workflow in one behaviour.
MaxRuns == 3

----------------------------------------------------------------------------
(* Python values *)

None == <<>>
Some(v) == <<v>>
Val(x) == x[1]
IsBound(x) == x # None

\* The notebook's parameters are meant to be edited ("you can use any
\* models supported by tfimm"); the first of each is the value in the file.
ModelNames == {"vit_tiny_patch16_224", "vit_tiny_patch16_384", "resnet18"}
ClassCounts == {5, 1000}

TF_LOG == "TF_CPP_MIN_LOG_LEVEL"

\* The process environment the kernel starts with: the variable unset, or
\* set by the user's shell.
InitialEnvirons ==
    {[k \in {} |-> ""]} \cup {[k \in {TF_LOG} |-> v] : v \in {"0", "3"}}

----------------------------------------------------------------------------
(* Tensors: [kind, shape, data], data a function of the index tuple *)

Indices(shape) ==
    LET sizes == {shape[i] : i \in 1..Len(shape)}
        most  == CHOOSE m \in sizes : \A n \in sizes : n <= m
    IN  {idx \in [1..Len(shape) -> 0..most - 1] :
            \A i \in 1..Len(shape) : idx[i] < shape[i]}

\* Row-major offset of idx in a tensor of the given shape.
RECURSIVE Flat(_, _, _)
Flat(idx, shape, i) ==
    IF i = 0 THEN 0 ELSE Flat(idx, shape, i - 1) * shape[i] + idx[i]

\* torch.rand(shape): the generator fills the tensor in row-major order; the
\* k-th draw of a generator seeded with seed is a value of 0..96.
Rand(seed, shape) ==
    [kind  |-> "torch.Tensor",
     shape |-> shape,
     data  |-> [idx \in Indices(shape) |->
                   (31 * seed + 7 * Flat(idx, shape, Len(shape))) % 97]]

\* Tensor.permute(dims): axis i of the result is axis dims[i] of t
\* (dims counts from 0, as in the notebook).
Permute(t, dims) ==
    LET newShape == [i \in 1..Len(dims) |-> t.shape[dims[i] + 1]]
    IN  [kind  |-> t.kind,
         shape |-> newShape,
         data  |-> [idx \in Indices(newShape) |->
                       t.data[[j \in 1..Len(dims) |->
                           idx[CHOOSE i \in 1..Len(dims) : dims[i] + 1 = j]]]]]

\* Tensor.numpy(): the same shape and values as a numpy array.
Numpy(t) == [t EXCEPT !.kind = "numpy.ndarray"]

----------------------------------------------------------------------------
(* The notebook: statements in cell order *)

ProgramSaveBeforeTest ==
    <<"import os", "os.environ", "import timm", "import tfimm",
      "import tensorflow", "import torch",
      "TIMM_MODEL_NAME", "N_CLASSES", "IMG_DIM",
      "create_model", "load_timm_model", "save",
      "rand", "timm_model()", "predict",
      "print(torch_output)", "print(keras_output)">>

ProgramImportBeforeEnv ==
    <<"import os", "import timm", "import tfimm", "import tensorflow",
      "os.environ", "import torch",
      "TIMM_MODEL_NAME", "N_CLASSES", "IMG_DIM",
      "create_model", "load_timm_model",
      "rand", "timm_model()", "predict",
      "print(torch_output)", "print(keras_output)",
      "save">>

Program ==
    <<"import os", "os.environ", "import timm", "import tfimm",
      "import tensorflow", "import torch",
      "TIMM_MODEL_NAME", "N_CLASSES", "IMG_DIM",
      "create_model",
      "load_timm_model",
      "rand", "timm_model()", "predict",
      "print(torch_output)", "print(keras_output)",
      "save">>

\* pc = 0 once a statement raised: the run has halted.
Running == pc \in 1..Len(Program)
Done == pc = Len(Program) + 1
Stmt == Program[pc]
At(s) == Running /\ Stmt = s

\* The names bound in the kernel's namespace.
Defined ==
    modules
    \cup (IF IsBound(TIMM_MODEL_NAME) THEN {"TIMM_MODEL_NAME"} ELSE {})
    \cup (IF IsBound(N_CLASSES) THEN {"N_CLASSES"} ELSE {})
    \cup (IF IsBound(IMG_DIM) THEN {"IMG_DIM"} ELSE {})
    \cup (IF IsBound(timm_model) THEN {"timm_model"} ELSE {})
    \cup (IF IsBound(keras_model) THEN {"keras_model"} ELSE {})
    \cup (IF IsBound(sample_input) THEN {"sample_input"} ELSE {})
    \cup (IF IsBound(torch_output) THEN {"torch_output"} ELSE {})
    \cup (IF IsBound(keras_output) THEN {"keras_output"} ELSE {})

\* The names a statement reads; reading an unbound one raises NameError.
Needs(s) ==
    CASE s = "os.environ"          -> {"os"}
      [] s = "create_model"        -> {"timm", "TIMM_MODEL_NAME", "N_CLASSES"}
      [] s = "load_timm_model"     -> {"tfimm", "TIMM_MODEL_NAME", "N_CLASSES",
                                       "timm_model"}
      [] s = "rand"                -> {"torch", "IMG_DIM"}
      [] s = "timm_model()"        -> {"timm_model", "sample_input"}
      [] s = "predict"             -> {"keras_model", "sample_input"}
      [] s = "print(torch_output)" -> {"torch_output"}
      [] s = "print(keras_output)" -> {"keras_output"}
      [] s = "save"                -> {"keras_model", "TIMM_MODEL_NAME"}
      [] OTHER                     -> {}

\* The statements that call into a library, which may raise.
Fallible ==
    {"import timm", "import tfimm", "import tensorflow", "import torch",
     "create_model", "load_timm_model", "rand", "timm_model()", "predict",
     "print(torch_output)", "print(keras_output)", "save"}

CanRun(s) == At(s) /\ Needs(s) \subseteq Defined

\* Control after a statement completed / raised.
Advance ==
    /\ pc' = pc + 1
    /\ executed' = Append(executed, Stmt)
    /\ failedAt' = failedAt

RaiseAndContinue ==
    /\ pc' = pc + 1
    /\ failedAt' = Stmt
    /\ executed' = executed

Raise ==
    /\ pc' = 0
    /\ failedAt' = Stmt
    /\ executed' = executed

----------------------------------------------------------------------------
(* The arguments the notebook passes to the library calls *)

\* timm.create_model(model_name=TIMM_MODEL_NAME, num_classes=N_CLASSES,
\*                   pretrained=True)
CreateCall ==
    [model_name  |-> Val(TIMM_MODEL_NAME),
     num_classes |-> Val(N_CLASSES),
     pretrained  |-> TRUE]

ConvertCallDefaultClasses ==
    [model_name |-> Val(TIMM_MODEL_NAME),
     nb_classes |-> 1000,
     pt_model   |-> Val(timm_model)]

\* tfimm.load_timm_model(TIMM_MODEL_NAME, nb_classes=N_CLASSES,
\*                       pt_model=timm_model)
ConvertCall ==
    [model_name |-> Val(TIMM_MODEL_NAME),
     nb_classes |-> Val(N_CLASSES),
     pt_model   |-> Val(timm_model)]

\* torch.rand((2,3,IMG_DIM,IMG_DIM))
SampleShape == <<2, 3, Val(IMG_DIM), Val(IMG_DIM)>>

\* timm_model(sample_input)
TimmArg == Val(sample_input)

KerasArgSwapHW == Numpy(Permute(Val(sample_input), <<0, 3, 2, 1>>))

\* keras_model.predict(sample_input.permute(0,2,3,1).numpy())
KerasArg == Numpy(Permute(Val(sample_input), <<0, 2, 3, 1>>))

SavePathFixed(name) == "keras_model"

\* f'keras_{TIMM_MODEL_NAME}'
SavePath(name) == "keras_" \o name

\* keras_model.save(filepath=f'keras_{TIMM_MODEL_NAME}', save_format='tf')
SaveCall ==
    [path        |-> SavePath(Val(TIMM_MODEL_NAME)),
     save_format |-> "tf",
     model       |-> Val(keras_model)]

\* The output of a model on a batch: one row per sample, one column per
\* class; the values are the library's, abstracted to v.
Output(batch, classes, v) ==
    [kind |-> "numpy.ndarray", shape |-> <<batch, classes>>, val |-> v]

----------------------------------------------------------------------------
(* Notebook actions: one per statement *)

ImportOs ==
    /\ CanRun("import os")
    /\ modules' = modules \cup {"os"}
    /\ Advance
    /\ UNCHANGED <<environ, TIMM_MODEL_NAME, N_CLASSES, IMG_DIM, timm_model,
                   keras_model, sample_input, torch_output, keras_output,
                   timm_arg, keras_arg, stdout, disk>>

SetEnviron ==
    /\ CanRun("os.environ")
    /\ environ' = [k \in DOMAIN environ \cup {TF_LOG} |->
                       IF k = TF_LOG THEN "3" ELSE environ[k]]
    /\ Advance
    /\ UNCHANGED <<modules, TIMM_MODEL_NAME, N_CLASSES, IMG_DIM, timm_model,
                   keras_model, sample_input, torch_output, keras_output,
                   timm_arg, keras_arg, stdout, disk>>

\* import timm / tfimm / tensorflow as tf / torch: binds the module; the
\* notebook's own state is otherwise untouched (os.environ is written by
\* the notebook only).
ImportLib ==
    /\ \E m \in {"timm", "tfimm", "tensorflow", "torch"} :
          /\ CanRun("import " \o m)
          /\ modules' = modules \cup {m}
    /\ Advance
    /\ UNCHANGED <<environ, TIMM_MODEL_NAME, N_CLASSES, IMG_DIM, timm_model,
                   keras_model, sample_input, torch_output, keras_output,
                   timm_arg, keras_arg, stdout, disk>>

AssignModelName ==
    /\ CanRun("TIMM_MODEL_NAME")
    /\ \E n \in ModelNames : TIMM_MODEL_NAME' = Some(n)
    /\ Advance
    /\ UNCHANGED <<environ, modules, N_CLASSES, IMG_DIM, timm_model,
                   keras_model, sample_input, torch_output, keras_output,
                   timm_arg, keras_arg, stdout, disk>>

AssignClasses ==
    /\ CanRun("N_CLASSES")
    /\ \E n \in ClassCounts : N_CLASSES' = Some(n)
    /\ Advance
    /\ UNCHANGED <<environ, modules, TIMM_MODEL_NAME, IMG_DIM, timm_model,
                   keras_model, sample_input, torch_output, keras_output,
                   timm_arg, keras_arg, stdout, disk>>

AssignImgDim ==
    /\ CanRun("IMG_DIM")
    /\ IMG_DIM' = Some(ImgDim)
    /\ Advance
    /\ UNCHANGED <<environ, modules, TIMM_MODEL_NAME, N_CLASSES, timm_model,
                   keras_model, sample_input, torch_output, keras_output,
                   timm_arg, keras_arg, stdout, disk>>

CreateModel ==
    /\ CanRun("create_model")
    /\ timm_model' = Some(CreateCall)
    /\ Advance
    /\ UNCHANGED <<environ, modules, TIMM_MODEL_NAME, N_CLASSES, IMG_DIM,
                   keras_model, sample_input, torch_output, keras_output,
                   timm_arg, keras_arg, stdout, disk>>

LoadTimmModel ==
    /\ CanRun("load_timm_model")
    /\ keras_model' = Some(ConvertCall)
    /\ Advance
    /\ UNCHANGED <<environ, modules, TIMM_MODEL_NAME, N_CLASSES, IMG_DIM,
                   timm_model, sample_input, torch_output, keras_output,
                   timm_arg, keras_arg, stdout, disk>>

SampleInput ==
    /\ CanRun("rand")
    /\ \E seed \in 0..MaxSeed : sample_input' = Some(Rand(seed, SampleShape))
    /\ Advance
    /\ UNCHANGED <<environ, modules, TIMM_MODEL_NAME, N_CLASSES, IMG_DIM,
                   timm_model, keras_model, torch_output, keras_output,
                   timm_arg, keras_arg, stdout, disk>>

TimmForward ==
    /\ CanRun("timm_model()")
    /\ timm_arg' = Some(TimmArg)
    /\ \E v \in 0..MaxOut :
          torch_output' =
              Some(Output(TimmArg.shape[1], Val(timm_model).num_classes, v))
    /\ Advance
    /\ UNCHANGED <<environ, modules, TIMM_MODEL_NAME, N_CLASSES, IMG_DIM,
                   timm_model, keras_model, sample_input, keras_output,
                   keras_arg, stdout, disk>>

KerasPredict ==
    /\ CanRun("predict")
    /\ keras_arg' = Some(KerasArg)
    /\ \E v \in 0..MaxOut :
          keras_output' =
              Some(Output(KerasArg.shape[1], Val(keras_model).nb_classes, v))
    /\ Advance
    /\ UNCHANGED <<environ, modules, TIMM_MODEL_NAME, N_CLASSES, IMG_DIM,
                   timm_model, keras_model, sample_input, torch_output,
                   timm_arg, stdout, disk>>

PrintTorchOutput ==
    /\ CanRun("print(torch_output)")
    /\ stdout' = Append(stdout, Val(torch_output))
    /\ Advance
    /\ UNCHANGED <<environ, modules, TIMM_MODEL_NAME, N_CLASSES, IMG_DIM,
                   timm_model, keras_model, sample_input, torch_output,
                   keras_output, timm_arg, keras_arg, disk>>

PrintKerasOutputAsserting ==
    /\ CanRun("print(keras_output)")
    /\ Val(torch_output).val = Val(keras_output).val
    /\ stdout' = Append(stdout, Val(keras_output))
    /\ Advance
    /\ UNCHANGED <<environ, modules, TIMM_MODEL_NAME, N_CLASSES, IMG_DIM,
                   timm_model, keras_model, sample_input, torch_output,
                   keras_output, timm_arg, keras_arg, disk>>

PrintKerasOutput ==
    /\ CanRun("print(keras_output)")
    /\ stdout' = Append(stdout, Val(keras_output))
    /\ Advance
    /\ UNCHANGED <<environ, modules, TIMM_MODEL_NAME, N_CLASSES, IMG_DIM,
                   timm_model, keras_model, sample_input, torch_output,
                   keras_output, timm_arg, keras_arg, disk>>

SaveKerasModel ==
    /\ CanRun("save")
    /\ disk' = disk \cup {SaveCall}
    /\ Advance
    /\ UNCHANGED <<environ, modules, TIMM_MODEL_NAME, N_CLASSES, IMG_DIM,
                   timm_model, keras_model, sample_input, torch_output,
                   keras_output, timm_arg, keras_arg, stdout>>

\* A library call raises, or a name the statement reads is unbound: the
\* exception propagates out of the cell and the run stops there; the
\* statement has no effect on the notebook's state.
StatementRaises ==
    /\ Running
    /\ Stmt \in Fallible \/ ~(Needs(Stmt) \subseteq Defined)
    /\ Raise
    /\ UNCHANGED <<environ, modules, TIMM_MODEL_NAME, N_CLASSES, IMG_DIM,
                   timm_model, keras_model, sample_input, torch_output,
                   keras_output, timm_arg, keras_arg, stdout, disk>>

NotebookInit ==
    /\ pc = 1
    /\ failedAt = "none"
    /\ executed = <<>>
    /\ environ \in InitialEnvirons
    /\ modules = {}
    /\ TIMM_MODEL_NAME = None
    /\ N_CLASSES = None
    /\ IMG_DIM = None
    /\ timm_model = None
    /\ keras_model = None
    /\ sample_input = None
    /\ torch_output = None
    /\ keras_output = None
    /\ timm_arg = None
    /\ keras_arg = None
    /\ stdout = <<>>
    /\ disk = {}

----------------------------------------------------------------------------
(* The publish workflow *)

Events == {"workflow_dispatch", "push", "pull_request", "schedule"}

OnAnyPush == {"workflow_dispatch", "push"}

\* on: workflow_dispatch
On == {"workflow_dispatch"}

\* strategy.matrix: one value each
MatrixOs == "ubuntu-latest"
MatrixPython == "3.7"

\* The poetry.lock of the checked-out commit: absent, or one of two contents.
LockFiles == {"none", "lockA", "lockB"}

\* hashFiles('**/poetry.lock'): the digest of the matching files, and the
\* empty string when no file matches.  Digests have one fixed length.
HashFiles(l) ==
    CASE l = "lockA" -> "a3f1"
      [] l = "lockB" -> "7c2e"
      [] OTHER       -> ""

CacheKeyFormat(os, python, hash) ==
    "poetry-" \o os \o "-" \o python \o "-" \o hash

\* key: poetry-${{ matrix.os }}-${{ matrix.python }}-${{ hashFiles(..) }}
PrimaryKey == CacheKeyFormat(MatrixOs, MatrixPython, HashFiles(lock))

RestoreKeysOsOnly == <<"poetry-" \o MatrixOs \o "-">>

\* restore-keys: the same expression, one line
RestoreKeys == <<CacheKeyFormat(MatrixOs, MatrixPython, HashFiles(lock))>>

\* What a virtualenv directory was installed for.
Origin(os, python, hash) == [os |-> os, python |-> python, hash |-> hash]

Entry(os, python, hash) ==
    [key |-> CacheKeyFormat(os, python, hash), content |-> Origin(os, python, hash)]

\* Entries the repository's cache may already hold when the first run
\* starts, saved under the same key scheme for another Python or OS.
InitialCaches ==
    {<<>>,
     <<Entry(MatrixOs, "3.8", HashFiles("lockA"))>>,
     <<Entry("macos-latest", MatrixPython, HashFiles("lockA"))>>}

IsPrefix(p, k) == Len(p) <= Len(k) /\ SubSeq(k, 1, Len(p)) = p

\* actions/cache restore: the entry under the primary key if there is one,
\* else the newest entry whose key starts with a restore key, else none.
\* The result is a set of at most one index into cacheStore.
CacheLookup ==
    LET exact   == {i \in 1..Len(cacheStore) : cacheStore[i].key = PrimaryKey}
        partial == {i \in 1..Len(cacheStore) :
                       \E r \in 1..Len(RestoreKeys) :
                           IsPrefix(RestoreKeys[r], cacheStore[i].key)}
    IN  IF exact # {} THEN exact
        ELSE {i \in partial : \A j \in partial : j <= i}

InstallConditionAlways == TRUE

\* if: steps.cache.outputs.cache-hit != 'true'
InstallCondition == cache_hit # "true"

TestPyPiUrl == "https://test.pypi.org/legacy/"
DefaultIndexUrl == "https://upload.pypi.org/legacy/"

PublishRepositoryDefault == "pypi"

\* poetry publish -r test-pypi
PublishRepository == "test-pypi"

\* The URL poetry uploads to for a repository name: the configured one, and
\* the default index for the name pypi.
Setting(k) == IF k \in DOMAIN poetryConfig THEN poetryConfig[k] ELSE "unset"

RepositoryUrl(name) ==
    IF name = "pypi" THEN DefaultIndexUrl ELSE Setting("repositories." \o name)

DefaultPoetryConfig ==
    [k \in {"virtualenvs.in-project", "virtualenvs.path",
            "repositories.test-pypi", "pypi-token.test-pypi"} |-> "unset"]

Steps ==
    <<"checkout", "Set up Python", "Install poetry",
      "Cache poetry environment", "Set Poetry config",
      "Install Dependencies",
      "poetry config repositories", "poetry config pypi-token",
      "poetry build", "poetry publish",
      "Post Cache poetry environment">>

\* wpc = 0: no run in progress.
InRun == wpc \in 1..Len(Steps)
Step == Steps[wpc]
AtStep(s) == InRun /\ Step = s

StepDone ==
    /\ wpc' = wpc + 1
    /\ wlog' = Append(wlog, Step)

\* An event reaches the repository.  The workflow starts a run, on a fresh
\* runner, only for an event its "on:" names.
Trigger ==
    /\ wpc = 0
    /\ runs < MaxRuns
    /\ \E e \in Events :
          /\ event' = e
          /\ wpc' = IF e \in On THEN 1 ELSE 0
    /\ runs' = runs + 1
    /\ cache_hit' = ""
    /\ restored' = None
    /\ venv' = None
    /\ wlog' = <<>>
    /\ poetryConfig' = DefaultPoetryConfig
    /\ built' = FALSE
    /\ UNCHANGED <<lock, cacheStore, uploads>>

\* actions/checkout: the commit's files, among them poetry.lock (or not).
Checkout ==
    /\ AtStep("checkout")
    /\ \E l \in LockFiles : lock' = l
    /\ StepDone
    /\ UNCHANGED <<event, cacheStore, cache_hit, restored, venv, poetryConfig,
                   built, uploads, runs>>

\* actions/setup-python and abatilo/actions-poetry: the toolchain.
SetUpTools ==
    /\ AtStep("Set up Python") \/ AtStep("Install poetry")
    /\ StepDone
    /\ UNCHANGED <<event, lock, cacheStore, cache_hit, restored, venv,
                   poetryConfig, built, uploads, runs>>

\* actions/cache (id: cache), main step: restore ~/.virtualenvs.
CacheRestore ==
    /\ AtStep("Cache poetry environment")
    /\ IF CacheLookup = {}
       THEN /\ cache_hit' = ""
            /\ UNCHANGED <<restored, venv>>
       ELSE \E i \in CacheLookup :
               /\ restored' = Some(cacheStore[i])
               /\ venv' = Some(cacheStore[i].content)
               /\ cache_hit' = IF cacheStore[i].key = PrimaryKey
                               THEN "true" ELSE "false"
    /\ StepDone
    /\ UNCHANGED <<event, lock, cacheStore, poetryConfig, built, uploads, runs>>

SetPoetryConfig ==
    /\ AtStep("Set Poetry config")
    /\ poetryConfig' = [poetryConfig EXCEPT
                            !["virtualenvs.in-project"] = "false",
                            !["virtualenvs.path"] = "~/.virtualenvs"]
    /\ StepDone
    /\ UNCHANGED <<event, lock, cacheStore, cache_hit, restored, venv, built,
                   uploads, runs>>

\* poetry install -E timm: the virtualenv now matches this run's lock file.
InstallDependencies ==
    /\ AtStep("Install Dependencies")
    /\ InstallCondition
    /\ venv' = Some(Origin(MatrixOs, MatrixPython, HashFiles(lock)))
    /\ StepDone
    /\ UNCHANGED <<event, lock, cacheStore, cache_hit, restored, poetryConfig,
                   built, uploads, runs>>

\* The step's condition is false: the step is skipped.
SkipInstallDependencies ==
    /\ AtStep("Install Dependencies")
    /\ ~InstallCondition
    /\ wpc' = wpc + 1
    /\ UNCHANGED <<event, lock, cacheStore, cache_hit, restored, venv, wlog,
                   poetryConfig, built, uploads, runs>>

\* poetry config repositories.test-pypi https://test.pypi.org/legacy/
ConfigRepository ==
    /\ AtStep("poetry config repositories")
    /\ poetryConfig' =
           [poetryConfig EXCEPT !["repositories.test-pypi"] = TestPyPiUrl]
    /\ StepDone
    /\ UNCHANGED <<event, lock, cacheStore, cache_hit, restored, venv, built,
                   uploads, runs>>

\* poetry config pypi-token.test-pypi $TEST_PYPI_TOKEN
ConfigToken ==
    /\ AtStep("poetry config pypi-token")
    /\ poetryConfig' =
           [poetryConfig EXCEPT
               !["pypi-token.test-pypi"] = "secrets.TEST_PYPI_TOKEN"]
    /\ StepDone
    /\ UNCHANGED <<event, lock, cacheStore, cache_hit, restored, venv, built,
                   uploads, runs>>

PoetryBuild ==
    /\ AtStep("poetry build")
    /\ built' = TRUE
    /\ StepDone
    /\ UNCHANGED <<event, lock, cacheStore, cache_hit, restored, venv,
                   poetryConfig, uploads, runs>>

\* poetry publish -r test-pypi: uploads the files poetry build made.
PoetryPublish ==
    /\ AtStep("poetry publish")
    /\ built
    /\ uploads' = uploads \cup
           {[run       |-> runs,
             event     |-> event,
             url       |-> RepositoryUrl(PublishRepository),
             token     |-> Setting("pypi-token." \o PublishRepository),
             cache_hit |-> cache_hit,
             venv      |-> venv,
             before    |-> wlog]}
    /\ StepDone
    /\ UNCHANGED <<event, lock, cacheStore, cache_hit, restored, venv,
                   poetryConfig, built, runs>>

\* actions/cache, post step (runs when the job succeeded): save
\* ~/.virtualenvs under the primary key unless that key was hit.
CacheSave ==
    /\ AtStep("Post Cache poetry environment")
    /\ IF IsBound(restored) /\ Val(restored).key = PrimaryKey
       THEN UNCHANGED cacheStore
       ELSE cacheStore' =
                Append(cacheStore, [key |-> PrimaryKey, content |-> Val(venv)])
    /\ wpc' = 0
    /\ wlog' = Append(wlog, Step)
    /\ UNCHANGED <<event, lock, cache_hit, restored, venv, poetryConfig, built,
                   uploads, runs>>

\* A command exits non-zero (or publish finds nothing built): the job
\* fails, the remaining steps and the post step do not run.
StepFails ==
    /\ \/ AtStep("Install Dependencies") /\ InstallCondition
       \/ AtStep("poetry build")
       \/ AtStep("poetry publish")
    /\ wpc' = 0
    /\ UNCHANGED <<event, lock, cacheStore, cache_hit, restored, venv, wlog,
                   poetryConfig, built, uploads, runs>>

WorkflowInit ==
    /\ wpc = 0
    /\ event = "none"
    /\ lock = "none"
    /\ cacheStore \in InitialCaches
    /\ cache_hit = ""
    /\ restored = None
    /\ venv = None
    /\ wlog = <<>>
    /\ poetryConfig = DefaultPoetryConfig
    /\ built = FALSE
    /\ uploads = {}
    /\ runs = 0

----------------------------------------------------------------------------
(* Specifications *)

\* No workflow run while the notebook is studied, and no notebook run while
\* the workflow is.
WorkflowIdle ==
    /\ WorkflowInit
    /\ cacheStore = <<>>

Init == NotebookInit /\ WorkflowIdle

Next ==
    \/ ImportOs /\ UNCHANGED wfVars
    \/ SetEnviron /\ UNCHANGED wfVars
    \/ ImportLib /\ UNCHANGED wfVars
    \/ AssignModelName /\ UNCHANGED wfVars
    \/ AssignClasses /\ UNCHANGED wfVars
    \/ AssignImgDim /\ UNCHANGED wfVars
    \/ CreateModel /\ UNCHANGED wfVars
    \/ LoadTimmModel /\ UNCHANGED wfVars
    \/ SampleInput /\ UNCHANGED wfVars
    \/ TimmForward /\ UNCHANGED wfVars
    \/ KerasPredict /\ UNCHANGED wfVars
    \/ PrintTorchOutput /\ UNCHANGED wfVars
    \/ PrintKerasOutput /\ UNCHANGED wfVars
    \/ SaveKerasModel /\ UNCHANGED wfVars
    \/ StatementRaises /\ UNCHANGED wfVars

Spec == Init /\ [][Next]_vars

WorkflowSpecInit == WorkflowInit /\ NotebookInit /\ environ = [k \in {} |-> ""]

WorkflowSpecNext ==
    \/ Trigger /\ UNCHANGED nbVars
    \/ Checkout /\ UNCHANGED nbVars
    \/ SetUpTools /\ UNCHANGED nbVars
    \/ CacheRestore /\ UNCHANGED nbVars
    \/ SetPoetryConfig /\ UNCHANGED nbVars
    \/ InstallDependencies /\ UNCHANGED nbVars
    \/ SkipInstallDependencies /\ UNCHANGED nbVars
    \/ ConfigRepository /\ UNCHANGED nbVars
    \/ ConfigToken /\ UNCHANGED nbVars
    \/ PoetryBuild /\ UNCHANGED nbVars
    \/ PoetryPublish /\ UNCHANGED nbVars
    \/ CacheSave /\ UNCHANGED nbVars
    \/ StepFails /\ UNCHANGED nbVars

WorkflowSpec == WorkflowSpecInit /\ [][WorkflowSpecNext]_vars

----------------------------------------------------------------------------
(* Properties of the notebook run (checked under Spec) *)

Has(seq, s) == \E i \in 1..Len(seq) : seq[i] = s
Pos(seq, s) == CHOOSE i \in 1..Len(seq) : seq[i] = s
IsPrefixOf(a, b) == Len(a) <= Len(b) /\ SubSeq(b, 1, Len(a)) = a

InferenceOrEarlier ==
    {"create_model", "load_timm_model", "rand", "timm_model()", "predict"}

\* C1: a statement that raises halts the run at that statement: nothing
\* can run afterwards, every statement that did run precedes the failing
\* one in the notebook, and after a failure of model creation, conversion
\* or inference the save has not run and nothing is on disk.
FailureHaltsRun ==
    failedAt # "none" =>
        /\ pc = 0
        /\ ~ENABLED Next
        /\ \A i \in 1..Len(executed) :
              Pos(Program, executed[i]) < Pos(Program, failedAt)
        /\ failedAt \in InferenceOrEarlier =>
              ~Has(executed, "save") /\ disk = {}

\* C1 witness: inference on the keras model raised after both models were
\* built.
FailureHaltsRunWitness ==
    /\ failedAt = "predict"
    /\ IsBound(keras_model)
    /\ IsBound(torch_output)
    /\ disk = {}

RunOrder ==
    <<"create_model", "load_timm_model", "timm_model()", "predict",
      "print(torch_output)", "print(keras_output)", "save">>

MainSteps(seq) == SelectSeq(seq, LAMBDA s : Has(RunOrder, s))

\* C2: the main steps run in the order create, convert, timm inference,
\* keras inference, print, save, each at most once (what has run is always
\* a prefix of that order); a run that completes has run all of them, with
\* the save last.
FixedStepOrder ==
    /\ IsPrefixOf(MainSteps(executed), RunOrder)
    /\ Done =>
          /\ failedAt = "none"
          /\ MainSteps(executed) = RunOrder
          /\ executed[Len(executed)] = "save"

\* C2 witness: a run that completed.
FixedStepOrderWitness ==
    /\ Done
    /\ Len(stdout) = 2
    /\ disk # {}

\* C3: the array given to keras_model.predict is the tensor given to
\* timm_model with its axes reordered: element [n,h,w,c] of the one is
\* element [n,c,h,w] of the other, the shapes are (2,3,D,D) and (2,D,D,3),
\* and both hold the same number of elements.
SameSampleBothModels ==
    IsBound(keras_arg) =>
        LET t == Val(timm_arg)
            k == Val(keras_arg)
            D == Val(IMG_DIM)
        IN  /\ t = Val(sample_input)
            /\ t.shape = <<2, 3, D, D>>
            /\ k.shape = <<2, D, D, 3>>
            /\ Cardinality(DOMAIN t.data) = 2 * 3 * D * D
            /\ Cardinality(DOMAIN k.data) = 2 * 3 * D * D
            /\ \A n \in 0..1, c \in 0..2, h \in 0..D - 1, w \in 0..D - 1 :
                  k.data[<<n, h, w, c>>] = t.data[<<n, c, h, w>>]

\* C3 witness: both models were fed, and the sample tells its positions
\* apart (no two elements are equal).
SameSampleBothModelsWitness ==
    /\ IsBound(keras_arg)
    /\ IsBound(timm_arg)
    /\ \A i, j \in DOMAIN Val(timm_arg).data :
          i # j => Val(timm_arg).data[i] # Val(timm_arg).data[j]

\* C4: whatever the two outputs are, the statements after the inference are
\* free to run: each print and the save is enabled when the run reaches it,
\* and a completed run has saved the converted model.
ComparisonNotEnforced ==
    /\ At("print(torch_output)") => ENABLED PrintTorchOutput
    /\ At("print(keras_output)") => ENABLED PrintKerasOutput
    /\ At("save") => ENABLED SaveKerasModel
    /\ Done => \E e \in disk : e.model = Val(keras_model)

\* C4 witness: a completed run whose two outputs differ, saved.
ComparisonNotEnforcedWitness ==
    /\ Done
    /\ Val(torch_output).val # Val(keras_output).val
    /\ disk # {}

\* C5: nothing is on disk before the save statement has run; afterwards the
\* disk holds exactly the keras model, in format 'tf', at 'keras_' followed
\* by the model name; the timm model is not on disk; and among the model
\* names two names give the same path only if they are the same name.
OnlyKerasModelPersisted ==
    /\ ~Has(executed, "save") => disk = {}
    /\ Has(executed, "save") =>
          /\ disk = {[path        |-> "keras_" \o Val(TIMM_MODEL_NAME),
                      save_format |-> "tf",
                      model       |-> Val(keras_model)]}
          /\ \A e \in disk : e.model # Val(timm_model)
          /\ \A n \in ModelNames :
                n # Val(TIMM_MODEL_NAME) => \A e \in disk : e.path # SavePath(n)
          /\ \A a, b \in ModelNames : SavePath(a) = SavePath(b) => a = b

\* C5 witness: the save has run.
OnlyKerasModelPersistedWitness ==
    /\ Has(executed, "save")
    /\ Cardinality(disk) = 1

\* C6: the timm model was created for the name and class count the
\* notebook variables still hold, and the keras model was converted with
\* that name, that class count and that timm model.
SameArchitectureAndClasses ==
    /\ IsBound(timm_model) =>
          /\ Val(timm_model).model_name = Val(TIMM_MODEL_NAME)
          /\ Val(timm_model).num_classes = Val(N_CLASSES)
    /\ IsBound(keras_model) =>
          /\ Val(keras_model).model_name = Val(timm_model).model_name
          /\ Val(keras_model).nb_classes = Val(timm_model).num_classes
          /\ Val(keras_model).pt_model = Val(timm_model)

\* C6 witness: converted, for the class count of the notebook file.
SameArchitectureAndClassesWitness ==
    /\ IsBound(keras_model)
    /\ Val(N_CLASSES) = 5
    /\ Val(keras_model).nb_classes = 5

LogLevelIs3 == TF_LOG \in DOMAIN environ /\ environ[TF_LOG] = "3"

HeavyImports == {"import timm", "import tfimm", "import tensorflow", "import torch"}

\* C10: TF_CPP_MIN_LOG_LEVEL is '3' whenever one of timm, tfimm, tensorflow,
\* torch has been imported or its import has been attempted, and at every
\* point after the assignment.
LogLevelSetBeforeImports ==
    /\ modules \cap {"timm", "tfimm", "tensorflow", "torch"} # {} => LogLevelIs3
    /\ failedAt \in HeavyImports => LogLevelIs3
    /\ Has(executed, "os.environ") => LogLevelIs3

\* C10 witness: the run completed with all four libraries imported.
LogLevelSetBeforeImportsWitness ==
    /\ Done
    /\ {"timm", "tfimm", "tensorflow", "torch"} \subseteq modules
    /\ LogLevelIs3

----------------------------------------------------------------------------
(* Properties of the publish workflow (checked under WorkflowSpec) *)

Ran(s) == Has(wlog, s)

\* The run went past 'Install Dependencies' without running it.
InstallSkipped ==
    /\ AtStep("poetry config repositories") \/ Ran("poetry config repositories")
    /\ ~Ran("Install Dependencies")

UploadIsManualTestPublish(u) ==
    /\ u.event = "workflow_dispatch"
    /\ u.url = TestPyPiUrl
    /\ u.url # DefaultIndexUrl
    /\ u.token = "secrets.TEST_PYPI_TOKEN"
    /\ Has(u.before, "poetry config repositories")
    /\ Has(u.before, "poetry config pypi-token")
    /\ Has(u.before, "poetry build")

\* C7 as stated: a run starts only on workflow_dispatch, and every upload
\* goes to the test registry, configured and built beforehand, in a run that
\* ran 'Install Dependencies' before.
EveryUploadInstalls ==
    /\ (InRun \/ wlog # <<>>) => event = "workflow_dispatch"
    /\ \A u \in uploads :
          /\ UploadIsManualTestPublish(u)
          /\ Has(u.before, "Install Dependencies")

\* C7 amended: as stated, except that a run whose cache step reported a hit
\* uploads without having run 'Install Dependencies' (its virtualenv is the
\* restored one); when the step ran, it ran before the build.
ManualTestPublish ==
    /\ (InRun \/ wlog # <<>>) => event = "workflow_dispatch"
    /\ \A u \in uploads :
          /\ UploadIsManualTestPublish(u)
          /\ Has(u.before, "Install Dependencies") <=> u.cache_hit # "true"
          /\ IsBound(u.venv)
          /\ Has(u.before, "Install Dependencies") =>
                Pos(u.before, "Install Dependencies") < Pos(u.before, "poetry build")

\* C7 witness: an upload to the test registry from a run that hit the cache.
ManualTestPublishWitness ==
    \E u \in uploads :
        /\ u.cache_hit = "true"
        /\ u.url = TestPyPiUrl
        /\ ~Has(u.before, "Install Dependencies")

\* C8: 'Install Dependencies' runs exactly when the cache step did not
\* report a hit; the publish commands are enabled when the run reaches them
\* whatever the cache step reported; a run that hit the cache and
\* published ran no installation.
InstallIffNoCacheHit ==
    /\ AtStep("Install Dependencies") =>
          /\ ENABLED InstallDependencies <=> cache_hit # "true"
          /\ ENABLED SkipInstallDependencies <=> cache_hit = "true"
    /\ Ran("Install Dependencies") => cache_hit # "true"
    /\ InstallSkipped => cache_hit = "true"
    /\ AtStep("poetry config repositories") => ENABLED ConfigRepository
    /\ AtStep("poetry publish") => ENABLED PoetryPublish
    /\ \A u \in uploads :
          u.cache_hit = "true" => ~Has(u.before, "Install Dependencies")

\* C8 witness: a run with a cache hit has built and published without
\* installing.
InstallIffNoCacheHitWitness ==
    /\ cache_hit = "true"
    /\ Ran("poetry build")
    /\ Ran("poetry publish")
    /\ ~Ran("Install Dependencies")

CurrentOrigin == Origin(MatrixOs, MatrixPython, HashFiles(lock))

\* C9 as stated: a skipped installation means the virtualenv came from an
\* entry saved for the same OS, Python and lock hash; whatever is restored
\* was saved for this run's OS, Python and lock hash and is reported as a
\* cache hit.
EveryRestoreIsExact ==
    /\ InstallSkipped =>
          IsBound(restored) /\ Val(restored).content = CurrentOrigin
    /\ IsBound(restored) =>
          /\ Val(restored).content = CurrentOrigin
          /\ cache_hit = "true"

\* C9 amended: a skipped installation means the virtualenv came from the
\* entry saved under this run's own key, for the same OS, Python and lock
\* hash.  Whatever is restored was saved for this run's OS and Python; it was
\* saved for another lock file only when this run has no poetry.lock (the
\* restore key then is a prefix of every key of this OS and Python), and
\* such a restore is not reported as a hit, so the installation is not
\* skipped.
SkipOnlyOnExactKey ==
    /\ InstallSkipped =>
          /\ IsBound(restored)
          /\ Val(restored).key = PrimaryKey
          /\ Val(restored).content = CurrentOrigin
          /\ venv = Some(CurrentOrigin)
    /\ IsBound(restored) =>
          /\ Val(restored).content.os = MatrixOs
          /\ Val(restored).content.python = MatrixPython
          /\ cache_hit = "true" <=> Val(restored).content.hash = HashFiles(lock)
          /\ cache_hit # "true" =>
                /\ HashFiles(lock) = ""
                /\ cache_hit = "false"
                /\ ~InstallSkipped

\* C9 witness: an installation skipped on a hit of the run's own key.
SkipOnlyOnExactKeyWitness ==
    /\ InstallSkipped
    /\ Ran("poetry publish")
    /\ IsBound(restored)
    /\ HashFiles(lock) # ""

====
